---- MODULE Spec2Model ----
(***************************************************************************)
(* chain(...values): the sequential, callback-aware version of Promise.all *)
(* of this repository, modelled as the promise chain it builds and the     *)
(* order in which the host runs that chain's handlers.  Two invocations    *)
(* (Runs) are in flight at once, each with its own closure state.          *)
(***************************************************************************)
EXTENDS Integers, Sequences, FiniteSets, TLC

\* Longest argument list of the first invocation.
MaxSteps == 2
\* Longest argument list of an unrelated second invocation.
MaxForeign == 1
\* The most calls and assignments made on one function that nerf returned.
MaxCalls == 3
\* random is called with max and min in -MaxArg..MaxArg.
MaxArg == 3
\* Math.random() gives one of 0/Grain, 1/Grain, ..., (Grain-1)/Grain.
Grain == 4
\* debounce is given a limit in 0..MaxLimit, the debounced function is called
\* at most MaxDebounced times, and the clock stops at MaxTime.
MaxLimit == 2
MaxDebounced == 3
MaxTime == 4

Runs == {1, 2}

(***************************************************************************)
(* JavaScript values.  Every value is a record of one shape:               *)
(*   prim    a primitive; a is its text ("null", "undefined", "true", ...) *)
(*   fn      a function; a is what a call does, b the value it carries     *)
(*           return: returns b        throw:  throws b                     *)
(*           fulfil: returns a promise that fulfils with b                 *)
(*           reject: returns a promise that rejects with b                 *)
(*   promise a promise given as a value; a is how it settles, b with what  *)
(*   array   an array of values (items)                                    *)
(***************************************************************************)
Prim(p) == [t |-> "prim", a |-> p, b |-> "", items |-> <<>>]
Fn(does, p) == [t |-> "fn", a |-> does, b |-> p, items |-> <<>>]
PromiseOf(how, p) == [t |-> "promise", a |-> how, b |-> p, items |-> <<>>]
Arr(items) == [t |-> "array", a |-> "", b |-> "", items |-> items]

\* nerf(fn), lines 136-151: the handler, a function that holds fn.
Nerf(fn) == [t |-> "fn", a |-> "nerf", b |-> "", items |-> <<fn>>]
IsNerfed(v) == v.t = "fn" /\ v.a = "nerf"

Null == Prim("null")
Undefined == Prim("undefined")
True == Prim("true")

\* null == v
IsNullish(v) == v = Null \/ v = Undefined

\* "function" === typeof v
IsFunction(v) == v.t = "fn"

\* Array.isArray(v)
IsArray(v) == v.t = "array"

\* Does without the catch of line 144: what fn throws, the handler throws.
DoesUnguarded(v) == IF IsNerfed(v) THEN v.items[1].a ELSE v.a

\* What a call of the function v does, and a promise given as a value.  The
\* handler of nerf(fn) does what fn does, but where fn throws it returns
\* (lines 142-145).
Does(v) ==
    IF IsNerfed(v)
    THEN (IF v.items[1].a = "throw" THEN "return" ELSE v.items[1].a)
    ELSE v.a

\* The value that goes with it: the handler returns null where fn throws.
Gives(v) ==
    IF IsNerfed(v)
    THEN (IF v.items[1].a = "throw" THEN "null" ELSE v.items[1].b)
    ELSE v.b

\* A handler that forgets the last error when fn returns.
LastErrorAfterReset(v, last) ==
    IF IsNerfed(v) /\ v.items[1].a = "throw" THEN Prim(v.items[1].b) ELSE Null

\* Lines 143-144: lastError after a call of the function v, last before it.
LastErrorAfter(v, last) ==
    IF IsNerfed(v) /\ v.items[1].a = "throw" THEN Prim(v.items[1].b) ELSE last

\* Normalize without lines 63-64: the arguments are the values, always.
NormalizeNever(a) == a

\* Lines 63-64: a sole array argument is the list of values.
Normalize(a) == IF Len(a) = 1 /\ IsArray(a[1]) THEN a[1].items ELSE a

(***************************************************************************)
(* Inputs.                                                                 *)
(***************************************************************************)
\* What the values of a call carry: the values that succeed, the errors a
\* function throws, the errors a promise rejects with.
Payloads == {"a", "b"}
Thrown == {"null", "undefined", "E1"}
Rejected == {"null", "E1", "E2"}

Steps ==
    {Prim(p) : p \in Payloads}
    \cup {Fn("return", p) : p \in Payloads}
    \cup {Fn("fulfil", "b")}
    \cup {Fn("throw", e) : e \in Thrown}
    \cup {Fn("reject", e) : e \in Rejected}
    \cup {PromiseOf("fulfil", "a"), PromiseOf("reject", "E2")}
    \cup {Arr(<<Fn("return", "a")>>)}

\* The values of a call that hands chain functions made by nerf.
NerfSteps ==
    {Nerf(f) : f \in {Fn("return", "a"), Fn("throw", "E1"), Fn("throw", "null"),
                      Fn("fulfil", "b"), Fn("reject", "E2")}}
    \cup {Prim("a"), Fn("return", "b"), Fn("throw", "E1")}

\* The same call with every function made by nerf replaced by the function
\* it was made from.
Unwrapped(a) ==
    [k \in 1..Len(a) |-> IF IsNerfed(a[k]) THEN a[k].items[1] ELSE a[k]]

\* The values of a call that has nothing in common with the first one.
ForeignSteps == {Fn("fulfil", "y"), Fn("throw", "E9")}

ListsOver(S, n) == UNION {[1..k -> S] : k \in 0..n}

\* The same call with one throwing function returning a rejected promise instead.
RejectInsteadOfThrow(a) ==
    {[a EXCEPT ![k] = Fn("reject", a[k].b)] :
        k \in {j \in 1..Len(a) : a[j] \in {Fn("throw", e) : e \in Thrown}}}

\* The second invocation: the first one's arguments as a single array, the
\* first one's arguments with a throw turned into a rejection, or an
\* unrelated call.
Companions(a) ==
    {<<Arr(a)>>} \cup RejectInsteadOfThrow(a) \cup ListsOver(ForeignSteps, MaxForeign)

VARIABLES
    args,       \* the arguments of the call
    values,     \* the list of values after lines 63-64
    pc,         \* idle, then, await, catch, final, done
    idx,        \* the value whose stage runs next
    carry,      \* the value or error the chain hands to the next handler
    results,    \* const results
    rejection,  \* let rejection
    calls,      \* how many times each value was called as a function
    prom,       \* each value's promise: none, pending, fulfilled, rejected
    outState,   \* the returned promise: pending, fulfilled, rejected
    outValue,   \* what the returned promise settled with
    lastError,  \* the lastError of each value made by nerf
    \* one function made by nerf, called on its own
    nfLastError, \* let lastError
    nfResult,    \* what the latest call returned
    nfRaised,    \* whether the latest call threw
    nfHist,      \* what was done so far: calls (and what fn did), assignments
    \* one call of random(max, min)
    rndMax, rndMin,
    rndDraw,     \* the numerator of what Math.random() gave
    rndResult,   \* what random returned
    rndCalled,   \* whether random has returned
    \* one function made by debounce(fn, limit, asap)
    dbLimit, dbAsap,
    dbNow,       \* Date.now()
    dbStarted,   \* let started
    dbArgs,      \* let context, args: the call they came from (0: null)
    dbTiming,    \* let timing: a timer's id (0: null)
    dbTimers,    \* the timers that are pending, each with the time it is due
    dbNextId,    \* the id setTimeout gives next
    dbPc,        \* "idle", or "in fn" while delayed is inside fn.apply
    dbCalls,     \* when each call of the debounced function was made
    dbInvoked    \* each invocation of fn

chainVars == <<args, values, pc, idx, carry, results, rejection, calls, prom,
               outState, outValue, lastError>>
nerfVars == <<nfLastError, nfResult, nfRaised, nfHist>>

randomVars == <<rndMax, rndMin, rndDraw, rndResult, rndCalled>>

debounceVars == <<dbLimit, dbAsap, dbNow, dbStarted, dbArgs, dbTiming, dbTimers,
                  dbNextId, dbPc, dbCalls, dbInvoked>>

vars == <<chainVars, nerfVars, randomVars, debounceVars>>

\* nerf, lines 140-150, before any call of the handler.
NerfStart ==
    /\ nfLastError = Null
    /\ nfResult = Undefined
    /\ nfRaised = FALSE
    /\ nfHist = <<>>

\* random is not called.
RandomIdle ==
    /\ rndMax = 0 /\ rndMin = 0
    /\ rndDraw = 0 /\ rndResult = 0
    /\ rndCalled = FALSE

\* Lines 101-102, before any call of the debounced function.
DebounceStart(limit, asap) ==
    /\ dbLimit = limit /\ dbAsap = asap
    /\ dbNow = 0 /\ dbStarted = 0
    /\ dbArgs = 0 /\ dbTiming = 0
    /\ dbTimers = {} /\ dbNextId = 1
    /\ dbPc = "idle"
    /\ dbCalls = <<>> /\ dbInvoked = <<>>

\* What is not chain's, untouched.
BesideChainStart == NerfStart /\ RandomIdle /\ DebounceStart(0, FALSE)
besideChain == <<nerfVars, randomVars, debounceVars>>
besideNerf == <<chainVars, randomVars, debounceVars>>
besideRandom == <<chainVars, nerfVars, debounceVars>>
besideDebounce == <<chainVars, nerfVars, randomVars>>

\* Before the two calls: nothing of either invocation exists yet.
Start(a, c) ==
    /\ args = [r \in Runs |-> IF r = 1 THEN a ELSE c]
    /\ values = [r \in Runs |-> <<>>]
    /\ pc = [r \in Runs |-> "idle"]
    /\ idx = [r \in Runs |-> 0]
    /\ carry = [r \in Runs |-> Undefined]
    /\ results = [r \in Runs |-> <<>>]
    /\ rejection = [r \in Runs |-> Null]
    /\ calls = [r \in Runs |-> <<>>]
    /\ prom = [r \in Runs |-> <<>>]
    /\ outState = [r \in Runs |-> "pending"]
    /\ outValue = [r \in Runs |-> Undefined]
    /\ lastError = [r \in Runs |-> <<>>]

Init ==
    /\ \E a \in ListsOver(Steps, MaxSteps) : \E c \in Companions(a) : Start(a, c)
    /\ BesideChainStart

\* The second call is the first one in its array form.
LiveInit ==
    /\ \E a \in ListsOver(Steps, MaxSteps) : Start(a, <<Arr(a)>>)
    /\ BesideChainStart

\* The first call is given functions made by nerf, the second the functions
\* themselves.
NerfInit ==
    /\ \E a \in ListsOver(NerfSteps, MaxSteps) : Start(a, Unwrapped(a))
    /\ BesideChainStart

(***************************************************************************)
(* The call itself, lines 62-87: it normalises the arguments, creates the  *)
(* closure state and attaches every handler; no handler runs before it     *)
(* returns.  promise starts fulfilled with undefined (line 66), so the     *)
(* first handler to run is the first value's then-handler, or the final    *)
(* one when there are no values.  A promise given as a value may settle at *)
(* any moment from here on.                                                *)
(***************************************************************************)
Call(r) ==
    /\ pc[r] = "idle"
    /\ LET vs == Normalize(args[r]) IN
         /\ values' = [values EXCEPT ![r] = vs]
         /\ calls' = [calls EXCEPT ![r] = [i \in 1..Len(vs) |-> 0]]
         /\ prom' = [prom EXCEPT ![r] =
                [i \in 1..Len(vs) |->
                    IF vs[i].t = "promise" THEN "pending" ELSE "none"]]
         /\ pc' = [pc EXCEPT ![r] = IF Len(vs) = 0 THEN "final" ELSE "then"]
         /\ idx' = [idx EXCEPT ![r] = IF Len(vs) = 0 THEN 0 ELSE 1]
    /\ carry' = [carry EXCEPT ![r] = Undefined]
    /\ rejection' = [rejection EXCEPT ![r] = Null]
    /\ results' = [results EXCEPT ![r] = <<>>]
    /\ lastError' = [lastError EXCEPT ![r] =
            [i \in 1..Len(Normalize(args[r])) |-> Null]]
    /\ UNCHANGED <<args, outState, outValue>>
    /\ UNCHANGED besideChain

\* The stage of value idx fulfilled with v: the catch attached to it passes v
\* on, and the next then-handler (or the final one) is due.
Proceed(r, v) ==
    /\ carry' = [carry EXCEPT ![r] = v]
    /\ IF idx[r] < Len(values[r])
       THEN /\ pc' = [pc EXCEPT ![r] = "then"]
            /\ idx' = [idx EXCEPT ![r] = @ + 1]
       ELSE /\ pc' = [pc EXCEPT ![r] = "final"]
            /\ idx' = idx

\* The stage of value idx rejected with e: its catch handler is due.
Raise(r, e) ==
    /\ carry' = [carry EXCEPT ![r] = e]
    /\ pc' = [pc EXCEPT ![r] = "catch"]
    /\ idx' = idx

\* The then-handler returned a promise: the stage waits for it.
Await(r) ==
    /\ pc' = [pc EXCEPT ![r] = "await"]
    /\ UNCHANGED <<carry, idx>>

\* ThenStage with results.unshift(result) for results.push(result).
ThenStageUnshift(r) ==
    /\ pc[r] = "then"
    /\ results' = [results EXCEPT ![r] = <<carry[r]>> \o @]
    /\ LET value == values[r][idx[r]] IN
         IF IsFunction(value)
         THEN /\ calls' = [calls EXCEPT ![r][idx[r]] = @ + 1]
              /\ CASE Does(value) = "return" ->
                        Proceed(r, Prim(Gives(value))) /\ UNCHANGED prom
                   [] Does(value) = "throw" ->
                        Raise(r, Prim(Gives(value))) /\ UNCHANGED prom
                   [] OTHER ->
                        /\ Await(r)
                        /\ prom' = [prom EXCEPT ![r][idx[r]] = "pending"]
         ELSE /\ IF value.t = "promise" THEN Await(r) ELSE Proceed(r, value)
              /\ UNCHANGED <<calls, prom>>
    /\ lastError' = [lastError EXCEPT ![r][idx[r]] =
            LastErrorAfter(values[r][idx[r]], @)]
    /\ UNCHANGED <<args, values, rejection, outState, outValue>>
    /\ UNCHANGED besideChain

\* ThenStage with the call wrapped as try{return value()}catch(e){return e}:
\* a thrown error becomes the stage's value.
ThenStageCatchesThrow(r) ==
    /\ pc[r] = "then"
    /\ results' = [results EXCEPT ![r] = Append(@, carry[r])]
    /\ LET value == values[r][idx[r]] IN
         IF IsFunction(value)
         THEN /\ calls' = [calls EXCEPT ![r][idx[r]] = @ + 1]
              /\ CASE Does(value) \in {"return", "throw"} ->
                        Proceed(r, Prim(Gives(value))) /\ UNCHANGED prom
                   [] OTHER ->
                        /\ Await(r)
                        /\ prom' = [prom EXCEPT ![r][idx[r]] = "pending"]
         ELSE /\ IF value.t = "promise" THEN Await(r) ELSE Proceed(r, value)
              /\ UNCHANGED <<calls, prom>>
    /\ lastError' = [lastError EXCEPT ![r][idx[r]] =
            LastErrorAfter(values[r][idx[r]], @)]
    /\ UNCHANGED <<args, values, rejection, outState, outValue>>
    /\ UNCHANGED besideChain

\* ThenStage with the handler's "return" left out: the function is called
\* and the stage fulfils with undefined at once.
ThenStageNoReturn(r) ==
    /\ pc[r] = "then"
    /\ results' = [results EXCEPT ![r] = Append(@, carry[r])]
    /\ LET value == values[r][idx[r]] IN
         IF IsFunction(value)
         THEN /\ calls' = [calls EXCEPT ![r][idx[r]] = @ + 1]
              /\ CASE Does(value) = "throw" ->
                        Raise(r, Prim(Gives(value))) /\ UNCHANGED prom
                   [] Does(value) = "return" ->
                        Proceed(r, Undefined) /\ UNCHANGED prom
                   [] OTHER ->
                        /\ Proceed(r, Undefined)
                        /\ prom' = [prom EXCEPT ![r][idx[r]] = "pending"]
         ELSE /\ Proceed(r, Undefined)
              /\ UNCHANGED <<calls, prom>>
    /\ lastError' = [lastError EXCEPT ![r][idx[r]] =
            LastErrorAfter(values[r][idx[r]], @)]
    /\ UNCHANGED <<args, values, rejection, outState, outValue>>
    /\ UNCHANGED besideChain

\* ThenStage without the typeof test of line 73: every value is called, and
\* calling a value that is no function throws a TypeError.
ThenStageCallsEverything(r) ==
    /\ pc[r] = "then"
    /\ results' = [results EXCEPT ![r] = Append(@, carry[r])]
    /\ LET value == values[r][idx[r]] IN
         IF IsFunction(value)
         THEN /\ calls' = [calls EXCEPT ![r][idx[r]] = @ + 1]
              /\ CASE Does(value) = "return" ->
                        Proceed(r, Prim(Gives(value))) /\ UNCHANGED prom
                   [] Does(value) = "throw" ->
                        Raise(r, Prim(Gives(value))) /\ UNCHANGED prom
                   [] OTHER ->
                        /\ Await(r)
                        /\ prom' = [prom EXCEPT ![r][idx[r]] = "pending"]
         ELSE /\ Raise(r, Prim("TypeError"))
              /\ UNCHANGED <<calls, prom>>
    /\ lastError' = [lastError EXCEPT ![r][idx[r]] =
            LastErrorAfter(values[r][idx[r]], @)]
    /\ UNCHANGED <<args, values, rejection, outState, outValue>>
    /\ UNCHANGED besideChain

\* ThenStage with a retry: a function that throws is called once more.
ThenStageRetry(r) ==
    /\ pc[r] = "then"
    /\ results' = [results EXCEPT ![r] = Append(@, carry[r])]
    /\ LET value == values[r][idx[r]] IN
         IF IsFunction(value)
         THEN /\ calls' = [calls EXCEPT ![r][idx[r]] =
                    IF Does(value) = "throw" THEN @ + 2 ELSE @ + 1]
              /\ CASE Does(value) = "return" ->
                        Proceed(r, Prim(Gives(value))) /\ UNCHANGED prom
                   [] Does(value) = "throw" ->
                        Raise(r, Prim(Gives(value))) /\ UNCHANGED prom
                   [] OTHER ->
                        /\ Await(r)
                        /\ prom' = [prom EXCEPT ![r][idx[r]] = "pending"]
         ELSE /\ IF value.t = "promise" THEN Await(r) ELSE Proceed(r, value)
              /\ UNCHANGED <<calls, prom>>
    /\ lastError' = [lastError EXCEPT ![r][idx[r]] =
            LastErrorAfter(values[r][idx[r]], @)]
    /\ UNCHANGED <<args, values, rejection, outState, outValue>>
    /\ UNCHANGED besideChain

\* Lines 71-73: the then-handler of value idx.
ThenStage(r) ==
    /\ pc[r] = "then"
    /\ results' = [results EXCEPT ![r] = Append(@, carry[r])]
    /\ LET value == values[r][idx[r]] IN
         IF IsFunction(value)
         THEN /\ calls' = [calls EXCEPT ![r][idx[r]] = @ + 1]
              /\ CASE Does(value) = "return" ->
                        Proceed(r, Prim(Gives(value))) /\ UNCHANGED prom
                   [] Does(value) = "throw" ->
                        Raise(r, Prim(Gives(value))) /\ UNCHANGED prom
                   [] OTHER ->
                        /\ Await(r)
                        /\ prom' = [prom EXCEPT ![r][idx[r]] = "pending"]
         ELSE /\ IF value.t = "promise" THEN Await(r) ELSE Proceed(r, value)
              /\ UNCHANGED <<calls, prom>>
    /\ lastError' = [lastError EXCEPT ![r][idx[r]] =
            LastErrorAfter(values[r][idx[r]], @)]
    /\ UNCHANGED <<args, values, rejection, outState, outValue>>
    /\ UNCHANGED besideChain

\* A pending promise settles, the way its maker decided.
Settle(r, i) ==
    /\ i \in 1..Len(prom[r])
    /\ prom[r][i] = "pending"
    /\ prom' = [prom EXCEPT ![r][i] =
            IF Does(values[r][i]) = "fulfil" THEN "fulfilled" ELSE "rejected"]
    /\ UNCHANGED <<lastError, args, values, pc, idx, carry, results, rejection, calls,
                   outState, outValue>>
    /\ UNCHANGED besideChain

\* Line 73: the stage takes the outcome of the promise its handler returned.
Adopt(r) ==
    /\ pc[r] = "await"
    /\ prom[r][idx[r]] \in {"fulfilled", "rejected"}
    /\ IF prom[r][idx[r]] = "fulfilled"
       THEN Proceed(r, Prim(Gives(values[r][idx[r]])))
       ELSE Raise(r, Prim(Gives(values[r][idx[r]])))
    /\ UNCHANGED <<lastError, args, values, results, rejection, calls, prom, outState,
                   outValue>>
    /\ UNCHANGED besideChain

\* CatchStage with "return error" for "return Promise.reject(error)": the
\* failure is recorded and the chain goes on.
CatchStageSwallow(r) ==
    /\ pc[r] = "catch"
    /\ rejection' = [rejection EXCEPT ![r] =
            IF @ = Null
            THEN (IF IsNullish(carry[r]) THEN True ELSE carry[r])
            ELSE @]
    /\ Proceed(r, carry[r])
    /\ UNCHANGED <<lastError, args, values, results, calls, prom, outState, outValue>>
    /\ UNCHANGED besideChain

\* CatchStage with rejection declared outside chain: one variable for every
\* invocation.
CatchStageShared(r) ==
    /\ pc[r] = "catch"
    /\ rejection' = [q \in Runs |->
            IF rejection[r] = Null
            THEN (IF IsNullish(carry[r]) THEN True ELSE carry[r])
            ELSE rejection[r]]
    /\ IF idx[r] < Len(values[r])
       THEN /\ idx' = [idx EXCEPT ![r] = @ + 1]
            /\ UNCHANGED <<pc, outState, outValue>>
       ELSE /\ pc' = [pc EXCEPT ![r] = "done"]
            /\ outState' = [outState EXCEPT ![r] = "rejected"]
            /\ outValue' = [outValue EXCEPT ![r] = carry[r]]
            /\ idx' = idx
    /\ UNCHANGED <<lastError, args, values, carry, results, calls, prom>>
    /\ UNCHANGED besideChain

\* CatchStage with "return Promise.reject(results)": the failure carries the
\* results gathered so far.
CatchStageRejectsResults(r) ==
    /\ pc[r] = "catch"
    /\ rejection' = [rejection EXCEPT ![r] =
            IF @ = Null
            THEN (IF IsNullish(carry[r]) THEN True ELSE carry[r])
            ELSE @]
    /\ IF idx[r] < Len(values[r])
       THEN /\ idx' = [idx EXCEPT ![r] = @ + 1]
            /\ carry' = [carry EXCEPT ![r] = Arr(results[r])]
            /\ UNCHANGED <<pc, outState, outValue>>
       ELSE /\ pc' = [pc EXCEPT ![r] = "done"]
            /\ outState' = [outState EXCEPT ![r] = "rejected"]
            /\ outValue' = [outValue EXCEPT ![r] = Arr(results[r])]
            /\ UNCHANGED <<idx, carry>>
    /\ UNCHANGED <<lastError, args, values, results, calls, prom>>
    /\ UNCHANGED besideChain

\* CatchStage with null === error for null == error on line 76.
CatchStageStrictNull(r) ==
    /\ pc[r] = "catch"
    /\ rejection' = [rejection EXCEPT ![r] =
            IF @ = Null
            THEN (IF carry[r] = Null THEN True ELSE carry[r])
            ELSE @]
    /\ IF idx[r] < Len(values[r])
       THEN /\ idx' = [idx EXCEPT ![r] = @ + 1]
            /\ UNCHANGED <<pc, outState, outValue>>
       ELSE /\ pc' = [pc EXCEPT ![r] = "done"]
            /\ outState' = [outState EXCEPT ![r] = "rejected"]
            /\ outValue' = [outValue EXCEPT ![r] = carry[r]]
            /\ idx' = idx
    /\ UNCHANGED <<lastError, args, values, carry, results, calls, prom>>
    /\ UNCHANGED besideChain

\* CatchStage with "return Promise.reject(rejection)": the recorded failure
\* is what goes on.
CatchStageRejectsRecorded(r) ==
    /\ pc[r] = "catch"
    /\ rejection' = [rejection EXCEPT ![r] =
            IF @ = Null
            THEN (IF IsNullish(carry[r]) THEN True ELSE carry[r])
            ELSE @]
    /\ IF idx[r] < Len(values[r])
       THEN /\ idx' = [idx EXCEPT ![r] = @ + 1]
            /\ carry' = [carry EXCEPT ![r] = rejection'[r]]
            /\ UNCHANGED <<pc, outState, outValue>>
       ELSE /\ pc' = [pc EXCEPT ![r] = "done"]
            /\ outState' = [outState EXCEPT ![r] = "rejected"]
            /\ outValue' = [outValue EXCEPT ![r] = rejection'[r]]
            /\ UNCHANGED <<idx, carry>>
    /\ UNCHANGED <<lastError, args, values, results, calls, prom>>
    /\ UNCHANGED besideChain

\* Lines 74-78: the catch handler of value idx.  It rejects again, so the
\* then-handlers after it are passed over and the next catch handler is due;
\* after the last one the final handler is passed over too and the returned
\* promise rejects with the error.
CatchStage(r) ==
    /\ pc[r] = "catch"
    /\ rejection' = [rejection EXCEPT ![r] =
            IF @ = Null
            THEN (IF IsNullish(carry[r]) THEN True ELSE carry[r])
            ELSE @]
    /\ IF idx[r] < Len(values[r])
       THEN /\ idx' = [idx EXCEPT ![r] = @ + 1]
            /\ UNCHANGED <<pc, outState, outValue>>
       ELSE /\ pc' = [pc EXCEPT ![r] = "done"]
            /\ outState' = [outState EXCEPT ![r] = "rejected"]
            /\ outValue' = [outValue EXCEPT ![r] = carry[r]]
            /\ idx' = idx
    /\ UNCHANGED <<lastError, args, values, carry, results, calls, prom>>
    /\ UNCHANGED besideChain

\* FinalStage without results.shift().
FinalStageNoShift(r) ==
    /\ pc[r] = "final"
    /\ LET pushed == Append(results[r], carry[r]) IN
         /\ results' = [results EXCEPT ![r] = pushed]
         /\ IF rejection[r] # Null
            THEN /\ outState' = [outState EXCEPT ![r] = "rejected"]
                 /\ outValue' = [outValue EXCEPT ![r] = rejection[r]]
            ELSE /\ outState' = [outState EXCEPT ![r] = "fulfilled"]
                 /\ outValue' = [outValue EXCEPT ![r] = Arr(pushed)]
    /\ pc' = [pc EXCEPT ![r] = "done"]
    /\ UNCHANGED <<lastError, args, values, idx, carry, rejection, calls, prom>>
    /\ UNCHANGED besideChain

\* FinalStage with the test of line 83 inverted.
FinalStageInverted(r) ==
    /\ pc[r] = "final"
    /\ LET shifted == Tail(Append(results[r], carry[r])) IN
         /\ results' = [results EXCEPT ![r] = shifted]
         /\ IF rejection[r] = Null
            THEN /\ outState' = [outState EXCEPT ![r] = "rejected"]
                 /\ outValue' = [outValue EXCEPT ![r] = rejection[r]]
            ELSE /\ outState' = [outState EXCEPT ![r] = "fulfilled"]
                 /\ outValue' = [outValue EXCEPT ![r] = Arr(shifted)]
    /\ pc' = [pc EXCEPT ![r] = "done"]
    /\ UNCHANGED <<lastError, args, values, idx, carry, rejection, calls, prom>>
    /\ UNCHANGED besideChain

\* Lines 80-86: the final then-handler.
FinalStage(r) ==
    /\ pc[r] = "final"
    /\ LET shifted == Tail(Append(results[r], carry[r])) IN
         /\ results' = [results EXCEPT ![r] = shifted]
         /\ IF rejection[r] # Null
            THEN /\ outState' = [outState EXCEPT ![r] = "rejected"]
                 /\ outValue' = [outValue EXCEPT ![r] = rejection[r]]
            ELSE /\ outState' = [outState EXCEPT ![r] = "fulfilled"]
                 /\ outValue' = [outValue EXCEPT ![r] = Arr(shifted)]
    /\ pc' = [pc EXCEPT ![r] = "done"]
    /\ UNCHANGED <<lastError, args, values, idx, carry, rejection, calls, prom>>
    /\ UNCHANGED besideChain

Next ==
    \E r \in Runs :
        \/ Call(r)
        \/ ThenStage(r)
        \/ \E i \in 1..(MaxSteps + 1) : Settle(r, i)
        \/ Adopt(r)
        \/ CatchStage(r)
        \/ FinalStage(r)

Spec == Init /\ [][Next]_vars

\* The host runs every handler that is due: a queued promise job is not
\* left waiting for ever.  When a promise settles is up to its maker.
Handlers(r) == ThenStage(r) \/ Adopt(r) \/ CatchStage(r) \/ FinalStage(r)

NerfSpec == NerfInit /\ [][Next]_vars

LiveSpec ==
    LiveInit /\ [][Next]_vars /\ \A r \in Runs : WF_vars(Handlers(r))

\* ---- nerf on its own: one function made by nerf, called again and again ----

\* What fn does in one call (line 143): return a value, throw an error, or
\* return a promise.
Behaviours ==
    {Fn("return", "a"), Fn("throw", "E1"), Fn("throw", "E2"),
     Fn("fulfil", "b"), Fn("reject", "E1")}

\* What a caller assigns to lastError (line 149).
Assigned == {Null, Prim("E9")}

HandlerInit ==
    /\ Start(<<>>, <<>>)
    /\ NerfStart
    /\ RandomIdle
    /\ DebounceStart(0, FALSE)

\* Lines 141-146: one call of the handler, in which fn does f.
Handler(f) ==
    /\ Len(nfHist) < MaxCalls
    /\ LET h == Nerf(f) IN
         /\ nfRaised' = (Does(h) = "throw")
         /\ nfResult' = IF Does(h) = "return"
                         THEN Prim(Gives(h))
                         ELSE PromiseOf(Does(h), Gives(h))
         /\ nfLastError' = LastErrorAfter(h, nfLastError)
    /\ nfHist' = Append(nfHist, [op |-> "call", a |-> f.a, b |-> f.b])
    /\ UNCHANGED besideNerf

\* Line 149: set(e){ lastError = e; }
SetLastError(e) ==
    /\ Len(nfHist) < MaxCalls
    /\ nfLastError' = e
    /\ nfHist' = Append(nfHist, [op |-> "set", a |-> "", b |-> e.a])
    /\ UNCHANGED <<nfResult, nfRaised>>
    /\ UNCHANGED besideNerf

HandlerNext ==
    \/ \E f \in Behaviours : Handler(f)
    \/ \E e \in Assigned : SetLastError(e)

HandlerSpec == HandlerInit /\ [][HandlerNext]_vars

\* ---- random(max, min), lib/math.js ----

\* Math.floor of the fraction num/den, den > 0.
Floor(num, den) == num \div den

\* Line 13: Math.floor(Math.random() * max - min + 1) + min, where
\* Math.random() gave k/Grain; x * max - min + 1 is (k*max - min*Grain + Grain)/Grain.
random(max, min, k) == Floor(k * max - min * Grain + Grain, Grain) + min

RandomInit ==
    /\ rndMax \in -MaxArg..MaxArg
    /\ rndMin \in -MaxArg..MaxArg
    /\ rndDraw = 0 /\ rndResult = 0
    /\ rndCalled = FALSE
    /\ Start(<<>>, <<>>)
    /\ NerfStart
    /\ DebounceStart(0, FALSE)

\* One call random(rndMax, rndMin) in which Math.random() gives k/Grain.
Random(k) ==
    /\ rndDraw' = k
    /\ rndResult' = random(rndMax, rndMin, k)
    /\ rndCalled' = TRUE
    /\ UNCHANGED <<rndMax, rndMin>>
    /\ UNCHANGED besideRandom

RandomNext == \E k \in 0..(Grain - 1) : Random(k)

RandomSpec == RandomInit /\ [][RandomNext]_vars

\* ---- debounce(fn, limit, asap) ----

DebounceInit ==
    /\ \E limit \in 0..MaxLimit : \E asap \in BOOLEAN : DebounceStart(limit, asap)
    /\ Start(<<>>, <<>>)
    /\ NerfStart
    /\ RandomIdle

\* fn.apply(context, args): fn is invoked with what call c passed, from inside
\* a call of the debounced function (sync) or from the timer.
Invocation(c, sync) ==
    [args |-> c, at |-> dbNow, sync |-> sync, calls |-> dbCalls]

\* setTimeout(delayed, ms)
Timer(ms) == [id |-> dbNextId, due |-> dbNow + ms]

\* clearTimeout(id)
Cleared(timers, id) == {u \in timers : u.id # id}

\* A debounced function that notes the time only when it sets the timer.
DebouncedStartedOnce ==
    /\ dbPc \in {"idle", "in fn"}
    /\ Len(dbCalls) < MaxDebounced
    /\ dbNow + dbLimit <= MaxTime
    /\ dbCalls' = Append(dbCalls, dbNow)
    /\ dbArgs' = Len(dbCalls) + 1
    /\ IF dbLimit = 0
       THEN /\ dbInvoked' = Append(dbInvoked, Invocation(dbArgs', TRUE))
            /\ UNCHANGED <<dbStarted, dbTiming, dbTimers, dbNextId>>
       ELSE IF dbTiming = 0
            THEN /\ dbStarted' = dbNow
                 /\ dbInvoked' = IF dbAsap
                                 THEN Append(dbInvoked, Invocation(dbArgs', TRUE))
                                 ELSE dbInvoked
                 /\ dbTiming' = dbNextId
                 /\ dbTimers' = dbTimers \cup {Timer(dbLimit)}
                 /\ dbNextId' = dbNextId + 1
            ELSE UNCHANGED <<dbStarted, dbInvoked, dbTiming, dbTimers, dbNextId>>
    /\ UNCHANGED <<dbLimit, dbAsap, dbNow, dbPc>>
    /\ UNCHANGED besideDebounce

\* Lines 115-125: one call of the debounced function, made from outside or
\* by fn while delayed is inside fn.apply (line 107).
Debounced ==
    /\ dbPc \in {"idle", "in fn"}
    /\ Len(dbCalls) < MaxDebounced
    /\ dbNow + dbLimit <= MaxTime
    /\ dbCalls' = Append(dbCalls, dbNow)
    /\ dbArgs' = Len(dbCalls) + 1
    /\ IF dbLimit = 0
       THEN /\ dbInvoked' = Append(dbInvoked, Invocation(dbArgs', TRUE))
            /\ UNCHANGED <<dbStarted, dbTiming, dbTimers, dbNextId>>
       ELSE /\ dbStarted' = dbNow
            /\ IF dbTiming = 0
               THEN /\ dbInvoked' = IF dbAsap
                                    THEN Append(dbInvoked, Invocation(dbArgs', TRUE))
                                    ELSE dbInvoked
                    /\ dbTiming' = dbNextId
                    /\ dbTimers' = dbTimers \cup {Timer(dbLimit)}
                    /\ dbNextId' = dbNextId + 1
               ELSE UNCHANGED <<dbInvoked, dbTiming, dbTimers, dbNextId>>
    /\ UNCHANGED <<dbLimit, dbAsap, dbNow, dbPc>>
    /\ UNCHANGED besideDebounce

\* Lines 104-112: timer t fires and delayed runs, up to and into fn.apply
\* when asap is false (line 107), to its end otherwise.
Delayed(t) ==
    /\ dbPc = "idle"
    /\ t \in dbTimers
    /\ t.due <= dbNow
    /\ LET timeSince == dbNow - dbStarted IN
         IF timeSince >= dbLimit
         THEN IF ~dbAsap
              THEN /\ dbInvoked' = Append(dbInvoked, Invocation(dbArgs, FALSE))
                   /\ dbPc' = "in fn"
                   /\ dbTimers' = dbTimers \ {t}
                   /\ UNCHANGED <<dbArgs, dbTiming, dbNextId>>
              ELSE /\ dbTimers' = Cleared(dbTimers \ {t}, dbTiming)
                   /\ dbTiming' = 0
                   /\ dbArgs' = 0
                   /\ UNCHANGED <<dbInvoked, dbPc, dbNextId>>
         ELSE /\ dbTiming' = dbNextId
              /\ dbTimers' = (dbTimers \ {t}) \cup {Timer(dbLimit - timeSince)}
              /\ dbNextId' = dbNextId + 1
              /\ UNCHANGED <<dbInvoked, dbPc, dbArgs>>
    /\ UNCHANGED <<dbLimit, dbAsap, dbNow, dbStarted, dbCalls>>
    /\ UNCHANGED besideDebounce

\* Lines 108-109: fn has returned to delayed.
DelayedEnd ==
    /\ dbPc = "in fn"
    /\ dbTimers' = Cleared(dbTimers, dbTiming)
    /\ dbTiming' = 0
    /\ dbArgs' = 0
    /\ dbPc' = "idle"
    /\ UNCHANGED <<dbLimit, dbAsap, dbNow, dbStarted, dbNextId, dbCalls, dbInvoked>>
    /\ UNCHANGED besideDebounce

\* A millisecond passes.
Tick ==
    /\ dbPc = "idle"
    /\ dbNow < MaxTime
    /\ dbNow' = dbNow + 1
    /\ UNCHANGED <<dbLimit, dbAsap, dbStarted, dbArgs, dbTiming, dbTimers,
                   dbNextId, dbPc, dbCalls, dbInvoked>>
    /\ UNCHANGED besideDebounce

TimerFires == \E t \in dbTimers : Delayed(t)

DebounceNext ==
    \/ Debounced
    \/ TimerFires
    \/ DelayedEnd
    \/ Tick

DebounceSpec == DebounceInit /\ [][DebounceNext]_vars

\* Time passes, a timer that is due fires, and fn returns.
DebounceLiveSpec ==
    /\ DebounceInit
    /\ [][DebounceNext]_vars
    /\ WF_vars(Tick)
    /\ WF_vars(TimerFires)
    /\ WF_vars(DelayedEnd)

(***************************************************************************)
(* What the claims speak of.                                               *)
(***************************************************************************)
Called(r) == pc[r] # "idle"
Done(r) == pc[r] = "done"
NumValues(r) == Len(values[r])

\* A value that fails when its stage runs: a function that throws or returns
\* a promise that rejects, or a promise that rejects.
WouldFail(v) == v.t \in {"fn", "promise"} /\ v.a \in {"throw", "reject"}
ErrorOf(v) == Prim(v.b)

\* A value of the kinds that succeed: a plain value, a function returning a
\* plain value, a function returning a promise that fulfils.
PlainSuccess(v) == v.t \in {"prim", "array"} \/ (IsFunction(v) /\ ~WouldFail(v))
ValueOf(v) == IF v.t \in {"fn", "promise"} THEN Prim(v.b) ELSE v

FailingAt(vs) == {i \in 1..Len(vs) : WouldFail(vs[i])}
FirstFailing(vs) == CHOOSE i \in FailingAt(vs) : \A j \in FailingAt(vs) : i <= j

\* The step at index k of run r has failed: it threw when called, or the
\* promise it returned (or is) has rejected.
Failed(r, k) ==
    /\ k \in 1..NumValues(r)
    /\ \/ /\ IsFunction(values[r][k])
          /\ values[r][k].a = "throw"
          /\ calls[r][k] > 0
       \/ prom[r][k] = "rejected"

\* The then-handler of step i has run: it is one of the handlers that pushed
\* onto results (the final handler pushes once and shifts once).
Reached(r, i) == i \in 1..Len(results[r])

\* Step i was started and the promise it gave has not settled.
Unsettled(r, i) == Reached(r, i) /\ prom[r][i] = "pending"

\* Step i has a determined outcome.
Determined(r, i) == Reached(r, i) /\ prom[r][i] # "pending"

\* C1: when every step of a run is a plain value, a function returning a
\* plain value or a function returning a promise that fulfils, the returned
\* promise fulfils with a list as long as the step list whose i-th entry is
\* the value of the i-th step, in the order given and with no leading entry.
C1_ResultsInOrder ==
    \A r \in Runs :
        (Done(r) /\ \A i \in 1..NumValues(r) : PlainSuccess(values[r][i]))
        => /\ outState[r] = "fulfilled"
           /\ outValue[r] = Arr([i \in 1..NumValues(r) |-> ValueOf(values[r][i])])

C1_Witness ==
    \E r \in Runs :
        /\ Done(r)
        /\ values[r] = <<Fn("fulfil", "b"), Prim("a")>>
        /\ outValue[r] = Arr(<<Prim("b"), Prim("a")>>)

\* C2: once the step at index k has failed, no function step at a greater
\* index has been or is ever called, up to and including the delivery of the
\* outcome.
C2_ShortCircuit ==
    \A r \in Runs : \A k \in 1..NumValues(r) : \A j \in 1..NumValues(r) :
        (k < j /\ Failed(r, k)) => calls[r][j] = 0

C2_Witness ==
    \E r \in Runs :
        /\ Done(r)
        /\ NumValues(r) = 2
        /\ Failed(r, 1)
        /\ IsFunction(values[r][2])
        /\ calls[r][2] = 0

\* C3: when some function step would fail with a non-null error, the returned
\* promise is never fulfilled, and it rejects with exactly the error of the
\* lowest-indexed failing step, which is no list of partial results.
C3_FirstErrorWins ==
    \A r \in Runs :
        (/\ Called(r)
         /\ \E i \in 1..NumValues(r) :
               /\ IsFunction(values[r][i])
               /\ WouldFail(values[r][i])
               /\ ~IsNullish(ErrorOf(values[r][i])))
        => /\ outState[r] # "fulfilled"
           /\ Done(r) =>
                /\ outState[r] = "rejected"
                /\ outValue[r] = ErrorOf(values[r][FirstFailing(values[r])])
                /\ ~IsArray(outValue[r])

C3_Witness ==
    \E r \in Runs :
        /\ Done(r)
        /\ values[r] = <<Fn("reject", "E2"), Fn("throw", "E1")>>
        /\ outState[r] = "rejected"
        /\ outValue[r] = Prim("E2")

\* C4: a step is started only when the step before it has a determined
\* outcome (in particular a function is called only then), and no two steps
\* of a run are started and unsettled at once.
C4_StrictSequencing ==
    \A r \in Runs :
        /\ \A i \in 2..NumValues(r) :
              (Reached(r, i) \/ calls[r][i] > 0) => Determined(r, i - 1)
        /\ Cardinality({i \in 1..NumValues(r) : Unsettled(r, i)}) <= 1

C4_Witness ==
    \E r \in Runs :
        /\ NumValues(r) = 2
        /\ values[r][1] = Fn("fulfil", "b")
        /\ IsFunction(values[r][2])
        /\ prom[r][1] = "fulfilled"
        /\ calls[r][2] = 1

\* The two invocations are the same call in its two forms: the second is
\* given the first one's arguments as a single array.
TwinForms == args[2] = <<Arr(args[1])>>

\* The two invocations deliver the same outcome after running the same steps.
SameRun ==
    /\ (Called(1) /\ Called(2)) => values[1] = values[2]
    /\ (Done(1) /\ Done(2)) =>
          /\ calls[1] = calls[2]
          /\ outState[1] = outState[2]
          /\ outValue[1] = outValue[2]

\* C5 as stated: for every step list, whatever its steps, the call with the
\* steps as separate arguments and the call with the list as a single array
\* run the same steps in the same order and deliver the same outcome.
C5_FormsEquivalent == TwinForms => SameRun

\* C5 as amended: the same, for every step list except the list of exactly
\* one step that is itself an array.
C5_FormsEquivalentUnlessSoleArray ==
    (TwinForms /\ ~(Len(args[1]) = 1 /\ IsArray(args[1][1]))) => SameRun

C5_Witness ==
    /\ TwinForms
    /\ args[1] = <<Fn("reject", "E1")>>
    /\ Done(1) /\ Done(2)
    /\ outState[2] = "rejected"
    /\ calls[2] = <<1>>

\* C6: when the step that fails is a function failing with null or undefined,
\* the returned promise rejects with a truthy value in place of the absent
\* one.
C6_SentinelDelivered ==
    \A r \in Runs :
        (/\ Done(r)
         /\ FailingAt(values[r]) # {}
         /\ IsFunction(values[r][FirstFailing(values[r])])
         /\ IsNullish(ErrorOf(values[r][FirstFailing(values[r])])))
        => /\ outState[r] = "rejected"
           /\ ~IsNullish(outValue[r])

\* The second invocation is the first with one throwing function returning a
\* promise that rejects with the same error instead.
TwinFailures == args[2] \in RejectInsteadOfThrow(args[1])

\* C7: a run in which a function throws e and the run in which it returns a
\* promise rejecting with e instead call the same steps and deliver the same
\* outcome.
C7_ThrowIsRejection ==
    (TwinFailures /\ Done(1) /\ Done(2)) =>
        /\ calls[1] = calls[2]
        /\ outState[1] = outState[2]
        /\ outValue[1] = outValue[2]

C7_Witness ==
    /\ args[1] = <<Fn("throw", "null"), Fn("return", "a")>>
    /\ args[2] = <<Fn("reject", "null"), Fn("return", "a")>>
    /\ Done(1) /\ Done(2)
    /\ outState[2] = "rejected"
    /\ calls[2] = <<1, 0>>

\* What a run of the values vs delivers on its own.
AloneState(vs) == IF FailingAt(vs) = {} THEN "fulfilled" ELSE "rejected"
AloneValue(vs) ==
    IF FailingAt(vs) = {}
    THEN Arr([i \in 1..Len(vs) |-> ValueOf(vs[i])])
    ELSE ErrorOf(vs[FirstFailing(vs)])
AloneCalls(vs) ==
    [i \in 1..Len(vs) |->
        IF IsFunction(vs[i]) /\ \A j \in 1..(i - 1) : ~WouldFail(vs[j])
        THEN 1 ELSE 0]

\* C8: of two invocations with different step lists, however their handlers
\* interleave, each holds only results of its own steps and delivers the
\* outcome it delivers alone, after calling the steps it calls alone.
C8_RunsIndependent ==
    (Called(1) /\ Called(2) /\ values[1] # values[2]) =>
        \A r \in Runs :
            /\ \A k \in 1..Len(results[r]) :
                  results[r][k] \in
                      {Undefined} \cup {ValueOf(values[r][i]) : i \in 1..NumValues(r)}
            /\ Done(r) =>
                  /\ outState[r] = AloneState(values[r])
                  /\ outValue[r] = AloneValue(values[r])
                  /\ calls[r] = AloneCalls(values[r])

C8_Witness ==
    /\ values[1] = <<Prim("a"), Fn("fulfil", "b")>>
    /\ values[2] = <<Fn("throw", "E9")>>
    /\ Done(1) /\ Done(2)
    /\ outState[2] = "rejected"
    /\ outState[1] = "fulfilled"
    /\ outValue[1] = Arr(<<Prim("a"), Prim("b")>>)

\* The returned promise, once settled, keeps its state and its value.
OutcomeKept(r) ==
    outState[r] # "pending" =>
        (outState'[r] = outState[r] /\ outValue'[r] = outValue[r])

\* No run is waiting for a promise that a function it called returned.
NoReturnedPromiseWaited ==
    \A r \in Runs : \A i \in 1..NumValues(r) :
        ~(IsFunction(values[r][i]) /\ Unsettled(r, i))

\* No run is waiting for a promise at all.
NoPromiseWaited ==
    \A r \in Runs : \A i \in 1..NumValues(r) : ~Unsettled(r, i)

\* C9 as stated: provided every promise returned by a called step settles,
\* every run ends fulfilled or rejected and stays so, and it ends rejected
\* exactly when a step it called failed.
C9_Terminates ==
    /\ [][\A r \in Runs : OutcomeKept(r)]_vars
    /\ [](\A r \in Runs :
            Done(r) =>
                /\ outState[r] \in {"fulfilled", "rejected"}
                /\ outState[r] = "rejected" <=>
                       \E k \in 1..NumValues(r) :
                           IsFunction(values[r][k]) /\ Failed(r, k))
    /\ <>[]NoReturnedPromiseWaited =>
          \A r \in Runs : Called(r) ~> Done(r)

\* C9 as amended: provided every promise a step of the run gives settles,
\* whether a called function returned it or it was given as a value, every
\* run ends fulfilled or rejected and stays so, and it ends rejected exactly
\* when a step it started failed (a function that threw or returned a
\* promise that rejected, or a value that is a promise that rejected).
C9_TerminatesIfPromisesSettle ==
    /\ [][\A r \in Runs : OutcomeKept(r)]_vars
    /\ [](\A r \in Runs :
            Done(r) =>
                /\ outState[r] \in {"fulfilled", "rejected"}
                /\ outState[r] = "rejected" <=>
                       \E k \in 1..NumValues(r) : Reached(r, k) /\ Failed(r, k))
    /\ <>[]NoPromiseWaited =>
          \A r \in Runs : Called(r) ~> Done(r)

C9_Witness ==
    \E r \in Runs :
        /\ values[r] = <<Fn("fulfil", "b"), Fn("reject", "E2")>>
        /\ Done(r)
        /\ outState[r] = "rejected"
        /\ prom[r] = <<"fulfilled", "rejected">>

\* C10: the call with no arguments and the call with a single empty array
\* are never rejected and fulfil with the empty list, nothing having been
\* called.
C10_EmptyInput ==
    \A r \in Runs :
        args[r] \in {<<>>, <<Arr(<<>>)>>} =>
            /\ outState[r] # "rejected"
            /\ Done(r) =>
                  /\ outState[r] = "fulfilled"
                  /\ outValue[r] = Arr(<<>>)
                  /\ calls[r] = <<>>

C10_Witness ==
    /\ args[1] = <<>>
    /\ args[2] = <<Arr(<<>>)>>
    /\ Done(1) /\ Done(2)
    /\ outValue[1] = Arr(<<>>)
    /\ outValue[2] = Arr(<<>>)

\* C13 as stated: a step that is no function never makes the run fail,
\* whatever it is: a run that ends rejected was failed by a function step.
C13_OnlyFunctionsFail ==
    \A r \in Runs :
        (Done(r) /\ outState[r] = "rejected") =>
            /\ FailingAt(values[r]) # {}
            /\ IsFunction(values[r][FirstFailing(values[r])])

\* C13 as amended: a step that is neither a function nor a promise never
\* makes the run fail: the catch handlers run only after a function step or
\* a step that is a promise has failed, and a run that ends rejected was
\* failed by such a step and rejects with its error.
C13_OnlyFunctionsAndPromisesFail ==
    \A r \in Runs :
        /\ pc[r] = "catch" =>
              \E k \in 1..NumValues(r) :
                  /\ values[r][k].t \in {"fn", "promise"}
                  /\ Reached(r, k)
                  /\ Failed(r, k)
        /\ (Done(r) /\ outState[r] = "rejected") =>
              /\ FailingAt(values[r]) # {}
              /\ values[r][FirstFailing(values[r])].t \in {"fn", "promise"}
              /\ outValue[r] = ErrorOf(values[r][FirstFailing(values[r])])

C13_Witness ==
    \E r \in Runs :
        /\ values[r] = <<Arr(<<Fn("return", "a")>>), PromiseOf("reject", "E2")>>
        /\ Done(r)
        /\ outState[r] = "rejected"
        /\ outValue[r] = Prim("E2")
        /\ calls[r] = <<0, 0>>

\* What line 76 records for the error e.
RecordedFor(e) == IF IsNullish(e) THEN True ELSE e

\* The catch handler of the first failing step of run r has run.
FirstCatchRan(r) ==
    /\ FailingAt(values[r]) # {}
    /\ \/ pc[r] = "catch" /\ idx[r] > FirstFailing(values[r])
       \/ Done(r) /\ outState[r] = "rejected"

\* C16: rejection is null until the catch handler of the first failing step
\* has run, holds from then on what that handler recorded for that step's
\* error, and is never changed again, while every later catch handler still
\* runs in turn and passes the same error on.
C16_RejectionSetOnce ==
    /\ [](\A r \in Runs :
            /\ rejection[r] # Null <=> (Called(r) /\ FirstCatchRan(r))
            /\ rejection[r] # Null =>
                  rejection[r] =
                      RecordedFor(ErrorOf(values[r][FirstFailing(values[r])]))
            /\ (Done(r) /\ outState[r] = "rejected") => idx[r] = NumValues(r))
    /\ [][\A r \in Runs :
            /\ rejection[r] # Null => rejection'[r] = rejection[r]
            /\ (pc[r] = "catch" /\ pc'[r] = "catch" /\ idx'[r] # idx[r]) =>
                  (idx'[r] = idx[r] + 1 /\ carry'[r] = carry[r])
            /\ (pc[r] = "catch" /\ pc'[r] # "catch") =>
                  (pc'[r] = "done" /\ outState'[r] = "rejected"
                   /\ outValue'[r] = carry[r])]_vars

C16_Witness ==
    \E r \in Runs :
        /\ values[r] = <<Fn("throw", "undefined"), Fn("reject", "E2")>>
        /\ pc[r] = "catch"
        /\ idx[r] = 2
        /\ rejection[r] = True

\* Every step of run r before step i has been started and has succeeded.
AllBeforeSucceeded(r, i) ==
    \A j \in 1..(i - 1) : Determined(r, j) /\ ~Failed(r, j)

\* C17: no function step is called more than once, a step that is no
\* function is never called, a function step is called only when every step
\* before it has succeeded, and at the end of the run the function steps
\* called (once) are exactly those that no failing step precedes.
C17_NothingRetried ==
    \A r \in Runs : \A i \in 1..NumValues(r) :
        /\ calls[r][i] <= 1
        /\ calls[r][i] = 1 => (IsFunction(values[r][i]) /\ AllBeforeSucceeded(r, i))
        /\ Done(r) =>
              (calls[r][i] = 1 <=>
                  /\ IsFunction(values[r][i])
                  /\ \A j \in 1..(i - 1) : ~WouldFail(values[r][j]))

C17_Witness ==
    \E r \in Runs :
        /\ values[r] = <<Fn("fulfil", "b"), Fn("throw", "E1")>>
        /\ Done(r)
        /\ calls[r] = <<1, 1>>
        /\ outState[r] = "rejected"

\* C18: whenever the final handler is due or runs, rejection is null, so it
\* fulfils; a run that fails is rejected by its last catch handler with the
\* error that came down the chain, the final handler never having run (the
\* leading placeholder is still in results), and what line 76 stored in
\* rejection in place of an absent error is not what the caller receives.
C18_FinalNeverRejects ==
    /\ [](\A r \in Runs :
            /\ pc[r] = "final" => rejection[r] = Null
            /\ (Done(r) /\ outState[r] = "rejected") =>
                  /\ Len(results[r]) >= 1
                  /\ results[r][1] = Undefined
                  /\ IsNullish(outValue[r]) => rejection[r] # outValue[r])
    /\ [][\A r \in Runs :
            /\ (pc[r] = "final" /\ pc'[r] = "done") =>
                  outState'[r] = "fulfilled"
            /\ (outState[r] = "pending" /\ outState'[r] = "rejected") =>
                  (pc[r] = "catch" /\ outValue'[r] = carry[r])]_vars

C18_Witness ==
    \E r \in Runs :
        /\ values[r] = <<Prim("a"), Fn("reject", "null")>>
        /\ Done(r)
        /\ outState[r] = "rejected"
        /\ outValue[r] = Null
        /\ rejection[r] = True
        /\ results[r] = <<Undefined, Prim("a")>>

\* Step k of run r is seen to fail: its stage rejected, and its catch
\* handler, the first to run, is due.
SeenFailed(r, k) == pc[r] = "catch" /\ idx[r] = k /\ Len(results[r]) = k

\* Step k of run r, once started, is followed by the next step, or by the
\* run fulfilling when it is the last.
RunGoesOnAfter(r, k) ==
    (Done(r) /\ Reached(r, k)) =>
        IF k < NumValues(r) THEN Reached(r, k + 1) ELSE outState[r] = "fulfilled"

\* C11 as stated: a step that is a function made by nerf is never seen to
\* fail, whatever the function it was made from does, and the run goes on
\* after it.
C11_NerfedNeverFails ==
    \A r \in Runs : \A k \in 1..NumValues(r) :
        IsNerfed(values[r][k]) =>
            (~SeenFailed(r, k) /\ ~Failed(r, k) /\ RunGoesOnAfter(r, k))

\* C11 as amended: the same, for a function that returns a value, throws,
\* or returns a promise that fulfils; not for one that returns a promise
\* that rejects.
C11_NerfedNeverFailsUnlessRejecting ==
    \A r \in Runs : \A k \in 1..NumValues(r) :
        (IsNerfed(values[r][k]) /\ values[r][k].items[1].a # "reject") =>
            (~SeenFailed(r, k) /\ ~Failed(r, k) /\ RunGoesOnAfter(r, k))

C11_Witness ==
    \E r \in Runs :
        /\ values[r] = <<Nerf(Fn("throw", "E1")), Fn("return", "b")>>
        /\ Done(r)
        /\ outState[r] = "fulfilled"
        /\ outValue[r] = Arr(<<Null, Prim("b")>>)
        /\ calls[r] = <<1, 1>>
        /\ lastError[r][1] = Prim("E1")

\* ---- C12 ----

\* The calls made so far in which fn threw.
ThrowingCalls == {i \in 1..Len(nfHist) : nfHist[i].op = "call" /\ nfHist[i].a = "throw"}

\* The error of the latest of them, null if there is none.
LastThrown ==
    IF ThrowingCalls = {} THEN Null
    ELSE Prim(nfHist[CHOOSE i \in ThrowingCalls : \A j \in ThrowingCalls : j <= i].b)

OnlyCalls == \A i \in 1..Len(nfHist) : nfHist[i].op = "call"

\* What fn returned in the call (null if it threw).
Returned(ev) ==
    CASE ev.a = "return" -> Prim(ev.b)
      [] ev.a = "throw" -> Null
      [] OTHER -> PromiseOf(ev.a, ev.b)

\* C12: no call of a function made by nerf raises; a call returns what fn
\* returned, or null if fn threw; after any sequence of calls lastError is the
\* error thrown by the latest call that threw, null if none has thrown (so a
\* later call that returns leaves it as it was).
C12_ExceptionProof ==
    /\ ~nfRaised
    /\ (nfHist # <<>> /\ nfHist[Len(nfHist)].op = "call")
          => nfResult = Returned(nfHist[Len(nfHist)])
    /\ OnlyCalls => nfLastError = LastThrown

C12_Witness ==
    /\ Len(nfHist) = 3
    /\ OnlyCalls
    /\ nfHist[1].a = "throw" /\ nfHist[1].b = "E1"
    /\ nfHist[2].a = "throw" /\ nfHist[2].b = "E2"
    /\ nfHist[3].a = "return"
    /\ nfLastError = Prim("E2")
    /\ nfResult = Prim("a")

\* ---- C15 ----

\* C15: for integers min <= max, every value random(max, min) returns is an
\* integer r with min <= r <= max, whatever Math.random() gives in [0, 1).
C15_WithinRange ==
    (rndCalled /\ rndMin <= rndMax) =>
        /\ rndResult \in Int
        /\ rndMin <= rndResult
        /\ rndResult <= rndMax

\* ---- C14 ----

\* debounce(fn, limit) with limit > 0 and asap false.
Trailing == dbLimit > 0 /\ ~dbAsap

\* When the latest call before invocation inv was made.
MostRecentCall(inv) == inv.calls[Len(inv.calls)]

\* C14: with limit > 0 and asap false, fn is invoked only when at least limit
\* milliseconds have passed since the most recent call of the debounced
\* function, and never from inside a call of it.
C14_OnlyAfterQuiet ==
    Trailing =>
        \A i \in 1..Len(dbInvoked) :
            /\ ~dbInvoked[i].sync
            /\ dbInvoked[i].calls # <<>>
            /\ dbInvoked[i].at - MostRecentCall(dbInvoked[i]) >= dbLimit

C14_Witness ==
    /\ dbLimit = 2 /\ ~dbAsap
    /\ dbCalls = <<0, 1>>
    /\ Len(dbInvoked) = 1
    /\ dbInvoked[1].at = 3
    /\ dbInvoked[1].args = 2

\* ---- C19 ----

\* fn has been invoked with what call c, or a call after it, passed.
Served(c) == \E i \in 1..Len(dbInvoked) : dbInvoked[i].args >= c

\* C19: with limit > 0 and asap false, and timers that fire: every call of the
\* debounced function, one made while fn is executing included, is followed
\* by an invocation of fn with what that call or a later call passed; a
\* timer's invocation passes what the latest call passed; at most one timer
\* is pending at any time.
C19_EveryCallServed ==
    /\ \A c \in 1..MaxDebounced :
          (Trailing /\ Len(dbCalls) >= c) ~> Served(c)
    /\ [](Trailing =>
            \A i \in 1..Len(dbInvoked) :
                dbInvoked[i].args = Len(dbInvoked[i].calls))
    /\ [](Trailing => Cardinality(dbTimers) <= 1)

====
